---------------------------- MODULE Spec2Model ----------------------------
(***************************************************************************)
(* Model of the Bangumi calendar plugin (src/main.py): the four command    *)
(* handlers (today, weekday, search, detail), the HTTP client calls they   *)
(* make, the day/weekday resolver and the view-model builder.              *)
(*                                                                         *)
(* Conventions                                                             *)
(*   - a Python str is a sequence of characters; a character is a one-    *)
(*     symbol string, and a CJK character is written as its pinyin token   *)
(*     (the module's strings are ASCII): "星期一" is <<"xing","qi","yi">>.  *)
(*   - a JSON scalar is a tagged record [t, n, s] (JNone, JInt, ...).      *)
(*   - a date is its day number; day 1 is a Monday (isoweekday 1).         *)
(*   - Optional values are sequences of length <= 1: <<>> is None.         *)
(***************************************************************************)
EXTENDS Integers, Sequences, FiniteSets, TLC

(***************************************************************************)
(* Bounds of the model.                                                    *)
(***************************************************************************)
\* longest calendar (number of day buckets) a response carries
MaxCal == 2
\* longest items list the builder is called with
MaxItems == 4
\* longest url text of an item
MaxUrl == 3
\* longest summary text of an item, and the greatest limit it is cut at
MaxText == 4
MaxLimit == 3
\* length of the long summary text cut at the default limit
LongTextLen == 150

(***************************************************************************)
(* JSON scalars and Python strings.                                        *)
(***************************************************************************)
JNone == [t |-> "none", n |-> 0, s |-> <<>>]
JInt(k) == [t |-> "int", n |-> k, s |-> <<>>]
\* a finite float, by its integral part (int() truncates toward zero)
JFloat(k) == [t |-> "float", n |-> k, s |-> <<>>]
\* the floats inf / nan, which json.loads accepts (Infinity, NaN, 1e999)
JFloatInf == [t |-> "float_inf", n |-> 0, s |-> <<>>]
JStr(str) == [t |-> "str", n |-> 0, s |-> str]
\* any other JSON value: a list, an object, a boolean is not modelled apart
JOther == [t |-> "other", n |-> 0, s |-> <<>>]

UpperChars == <<"A","B","C","D","E","F","G","H","I","J","K","L","M",
                "N","O","P","Q","R","S","T","U","V","W","X","Y","Z">>
LowerChars == <<"a","b","c","d","e","f","g","h","i","j","k","l","m",
                "n","o","p","q","r","s","t","u","v","w","x","y","z">>
DigitChars == <<"0","1","2","3","4","5","6","7","8","9">>

\* str.lower() on one character
LowerChar(c) ==
    IF \E i \in 1..26 : UpperChars[i] = c
    THEN LowerChars[CHOOSE i \in 1..26 : UpperChars[i] = c]
    ELSE c

\* str.lower()
Lower(str) == [i \in 1..Len(str) |-> LowerChar(str[i])]

IsSpace(c) == c \in {" ", "\n", "\t"}

RECURSIVE LStrip(_)
LStrip(str) ==
    IF str # <<>> /\ IsSpace(Head(str)) THEN LStrip(Tail(str)) ELSE str

RECURSIVE RStrip(_)
RStrip(str) ==
    IF str # <<>> /\ IsSpace(str[Len(str)])
    THEN RStrip(SubSeq(str, 1, Len(str) - 1))
    ELSE str

\* str.strip()
Strip(str) == RStrip(LStrip(str))

IsDigit(c) == \E i \in 1..10 : DigitChars[i] = c
DigitVal(c) == (CHOOSE i \in 1..10 : DigitChars[i] = c) - 1

RECURSIVE DigitsValue(_)
DigitsValue(str) ==
    IF str = <<>> THEN 0
    ELSE 10 * DigitsValue(SubSeq(str, 1, Len(str) - 1)) + DigitVal(str[Len(str)])

AllDigits(str) == str # <<>> /\ \A i \in 1..Len(str) : IsDigit(str[i])

\* int(text) accepts an optional sign followed by decimal digits
IsIntLiteral(str) ==
    \/ AllDigits(str)
    \/ str # <<>> /\ Head(str) \in {"+", "-"} /\ AllDigits(Tail(str))

IntLiteralValue(str) ==
    IF Head(str) = "-" THEN 0 - DigitsValue(Tail(str))
    ELSE IF Head(str) = "+" THEN DigitsValue(Tail(str))
    ELSE DigitsValue(str)

\* _to_int raises (OverflowError / ValueError) on int(inf) and int(nan)
to_int_raises(value) == value.t = "float_inf"

\* _to_int: <<k>> for an integer result, <<>> for None
to_int(value) ==
    IF value.t = "none" THEN <<>>
    ELSE IF value.t = "int" THEN <<value.n>>
    ELSE IF value.t = "float" THEN <<value.n>>
    ELSE IF value.t = "str" THEN
        LET text == Strip(value.s) IN
        IF text = <<>> THEN <<>>
        ELSE IF IsIntLiteral(text) THEN <<IntLiteralValue(text)>>
        ELSE <<>>
    ELSE <<>>

(***************************************************************************)
(* Module constants of src/main.py.                                        *)
(***************************************************************************)
SEARCH_DEFAULT_LIMIT == 10
\* _safe_summary's default limit
DEFAULT_SUMMARY_LIMIT == 100

WEEKDAY_CN_MAP ==
    [w \in 1..7 |->
        CASE w = 1 -> <<"xing", "qi", "yi">>
          [] w = 2 -> <<"xing", "qi", "er">>
          [] w = 3 -> <<"xing", "qi", "san">>
          [] w = 4 -> <<"xing", "qi", "si">>
          [] w = 5 -> <<"xing", "qi", "wu">>
          [] w = 6 -> <<"xing", "qi", "liu">>
          [] w = 7 -> <<"xing", "qi", "ri">>]

WEEKDAY_EN_MAP ==
    [w \in 1..7 |->
        CASE w = 1 -> <<"m","o","n","d","a","y">>
          [] w = 2 -> <<"t","u","e","s","d","a","y">>
          [] w = 3 -> <<"w","e","d","n","e","s","d","a","y">>
          [] w = 4 -> <<"t","h","u","r","s","d","a","y">>
          [] w = 5 -> <<"f","r","i","d","a","y">>
          [] w = 6 -> <<"s","a","t","u","r","d","a","y">>
          [] w = 7 -> <<"s","u","n","d","a","y">>]

\* the command tokens 一 二 三 四 五 六 日 天
WeekdayTokens == {"yi", "er", "san", "si", "wu", "liu", "ri", "tian"}

WEEKDAY_TOKEN_TO_ID ==
    [tok \in WeekdayTokens |->
        CASE tok = "yi" -> 1
          [] tok = "er" -> 2
          [] tok = "san" -> 3
          [] tok = "si" -> 4
          [] tok = "wu" -> 5
          [] tok = "liu" -> 6
          [] tok = "ri" -> 7
          [] tok = "tian" -> 7]

(***************************************************************************)
(* Dates.                                                                  *)
(***************************************************************************)
\* date.isoweekday(): day 1 is a Monday
isoweekday(d) == ((d - 1) % 7) + 1

\* _latest_weekday_date
latest_weekday_date(base_date, weekday_id) ==
    base_date - ((isoweekday(base_date) - weekday_id) % 7)

(***************************************************************************)
(* Day buckets.  A bucket is                                               *)
(*   [weekday |-> [isdict, id, cn, en], date |-> [t, d], items |-> ...]    *)
(* date.t: "none" (absent or blank), "bad" (not an ISO date), "iso".       *)
(***************************************************************************)
\* an element of the calendar array: a day bucket (a JSON object) or not
Bucket(weekday, date, items) ==
    [isdict |-> TRUE, weekday |-> weekday, date |-> date, items |-> items]

NoWeekday == [isdict |-> FALSE, id |-> JNone, cn |-> <<>>, en |-> <<>>]
WeekdayObj(id, cn, en) == [isdict |-> TRUE, id |-> id, cn |-> cn, en |-> en]

DateNone == [t |-> "none", d |-> 0]
DateBad == [t |-> "bad", d |-> 0]
DateIso(d) == [t |-> "iso", d |-> d]

\* _extract_weekday_id: <<w>> or <<>>
extract_weekday_id(day) ==
    LET weekday == day.weekday IN
    IF ~weekday.isdict THEN <<>>
    ELSE
        LET raw_id == to_int(weekday.id)
            weekday_cn == Strip(weekday.cn)
            weekday_en == Lower(Strip(weekday.en))
            cnHits == {w \in 1..7 : weekday_cn = WEEKDAY_CN_MAP[w]}
            enHits == {w \in 1..7 :
                          \/ weekday_en = WEEKDAY_EN_MAP[w]
                          \/ weekday_en = SubSeq(WEEKDAY_EN_MAP[w], 1, 3)}
        IN  IF raw_id # <<>> /\ raw_id[1] \in 1..7 THEN raw_id
            ELSE IF cnHits # {} THEN <<CHOOSE w \in cnHits : \A u \in cnHits : w <= u>>
            ELSE IF enHits # {} THEN <<CHOOSE w \in enHits : \A u \in enHits : w <= u>>
            ELSE <<>>

\* _extract_weekday_id raises when its _to_int call raises
extract_weekday_id_raises(day) ==
    day.weekday.isdict /\ to_int_raises(day.weekday.id)

\* _extract_day_date: <<d>> or <<>>
extract_day_date(day) ==
    IF day.date.t = "iso" THEN <<day.date.d>> ELSE <<>>


(***************************************************************************)
(* Day/weekday resolver.                                                   *)
(***************************************************************************)
\* max(seq, key=date): the first element with the greatest date
RECURSIVE MaxByDate(_, _)
MaxByDate(best, rest) ==
    IF rest = <<>> THEN best
    ELSE IF extract_day_date(Head(rest))[1] > extract_day_date(best)[1]
         THEN MaxByDate(Head(rest), Tail(rest))
         ELSE MaxByDate(best, Tail(rest))

\* min(seq, key=date): the first element with the least date
RECURSIVE MinByDate(_, _)
MinByDate(best, rest) ==
    IF rest = <<>> THEN best
    ELSE IF extract_day_date(Head(rest))[1] < extract_day_date(best)[1]
         THEN MinByDate(Head(rest), Tail(rest))
         ELSE MinByDate(best, Tail(rest))

IsCandidate(day, target_weekday_id) ==
    extract_weekday_id(day) = <<target_weekday_id>>

\* a plausible slip of the caller's fallback into the resolver: with no
\* bucket of the target weekday, the first bucket whose date falls on it
select_by_weekday_date_fallback(calendar, target_weekday_id, base_date) ==
    LET candidates ==
            SelectSeq(calendar, LAMBDA day : IsCandidate(day, target_weekday_id))
        dated ==
            SelectSeq(calendar,
                      LAMBDA day : /\ extract_day_date(day) # <<>>
                                   /\ isoweekday(extract_day_date(day)[1])
                                        = target_weekday_id)
    IN  IF candidates # <<>> THEN <<candidates[1]>>
        ELSE IF dated # <<>> THEN <<dated[1]>>
        ELSE <<>>

\* a plausible slip: "before base_date" instead of "on or before"
select_by_weekday_strict(calendar, target_weekday_id, base_date) ==
    LET candidates ==
            SelectSeq(calendar, LAMBDA day : IsCandidate(day, target_weekday_id))
        dated_candidates ==
            SelectSeq(candidates, LAMBDA day : extract_day_date(day) # <<>>)
        past_or_today ==
            SelectSeq(dated_candidates,
                      LAMBDA day : extract_day_date(day)[1] < base_date)
    IN  IF candidates = <<>> THEN <<>>
        ELSE IF dated_candidates = <<>> THEN <<candidates[1]>>
        ELSE IF past_or_today # <<>>
             THEN <<MaxByDate(Head(past_or_today), Tail(past_or_today))>>
        ELSE <<MinByDate(Head(dated_candidates), Tail(dated_candidates))>>

\* _select_by_weekday: <<day>> or <<>>
select_by_weekday(calendar, target_weekday_id, base_date) ==
    LET candidates ==
            SelectSeq(calendar, LAMBDA day : IsCandidate(day, target_weekday_id))
        dated_candidates ==
            SelectSeq(candidates, LAMBDA day : extract_day_date(day) # <<>>)
        past_or_today ==
            SelectSeq(dated_candidates,
                      LAMBDA day : extract_day_date(day)[1] <= base_date)
    IN  IF candidates = <<>> THEN <<>>
        ELSE IF dated_candidates = <<>> THEN <<candidates[1]>>
        ELSE IF past_or_today # <<>>
             THEN <<MaxByDate(Head(past_or_today), Tail(past_or_today))>>
        ELSE <<MinByDate(Head(dated_candidates), Tail(dated_candidates))>>

\* a plausible slip: the exact-date match tried before the weekday match
select_today_date_first(calendar, today_date) ==
    LET dateHits ==
            SelectSeq(calendar, LAMBDA day : extract_day_date(day) = <<today_date>>)
        selected == select_by_weekday(calendar, isoweekday(today_date), today_date)
    IN  IF calendar = <<>> THEN <<>>
        ELSE IF dateHits # <<>> THEN <<dateHits[1]>>
        ELSE IF selected # <<>> THEN selected
        ELSE <<calendar[1]>>

\* _select_today: <<day>> or <<>>; today_date is now(Asia/Shanghai).date()
select_today(calendar, today_date) ==
    LET today_weekday_id == isoweekday(today_date)
        selected == select_by_weekday(calendar, today_weekday_id, today_date)
        dateHits ==
            SelectSeq(calendar, LAMBDA day : extract_day_date(day) = <<today_date>>)
    IN  IF calendar = <<>> THEN <<>>
        ELSE IF selected # <<>> THEN selected
        ELSE IF dateHits # <<>> THEN <<dateHits[1]>>
        ELSE <<calendar[1]>>

(***************************************************************************)
(* View-model builder.  An item (a subject record) is                      *)
(*   [isdict, id, rating_isdict, total, url, summary]                      *)
(* (url and summary are JSON scalars, JNone when the key is absent), and a *)
(* day's items field is [t, v]: t is "missing" (the key is absent),        *)
(* "notlist" or "list", v the entries.                                     *)
(***************************************************************************)
Item(id, total) ==
    [isdict |-> TRUE, id |-> id, rating_isdict |-> TRUE, total |-> total,
     url |-> JNone, summary |-> JNone]
ItemNoRating(id) ==
    [isdict |-> TRUE, id |-> id, rating_isdict |-> FALSE, total |-> JNone,
     url |-> JNone, summary |-> JNone]
NonDictItem ==
    [isdict |-> FALSE, id |-> JNone, rating_isdict |-> FALSE, total |-> JNone,
     url |-> JNone, summary |-> JNone]
\* an item with a url field
ItemUrl(id, url) == [Item(id, JNone) EXCEPT !.url = url]
\* an item with a summary field
ItemSummary(summary) == [Item(JNone, JNone) EXCEPT !.summary = summary]

\* str(k) for an int k >= 0
RECURSIVE NatToStr(_)
NatToStr(k) ==
    IF k < 10 THEN <<DigitChars[k + 1]>>
    ELSE NatToStr(k \div 10) \o <<DigitChars[(k % 10) + 1]>>

\* str(k) for an int
IntToStr(k) == IF k < 0 THEN <<"-">> \o NatToStr(0 - k) ELSE NatToStr(k)

\* str(value or ""): None, "" and 0 are falsy; a value of another type
\* stands for a truthy one, whose str() is some non-empty text
StrOrEmpty(value) ==
    IF value.t = "none" THEN <<>>
    ELSE IF value.t = "str" THEN value.s
    ELSE IF value.t = "int" THEN
        (IF value.n = 0 THEN <<>> ELSE IntToStr(value.n))
    ELSE <<"repr">>

\* "https:"
HttpsScheme == <<"h", "t", "t", "p", "s", ":">>
\* "https://bgm.tv/subject/"
SubjectUrlPrefix ==
    HttpsScheme \o <<"/", "/", "b", "g", "m", ".", "t", "v", "/",
                     "s", "u", "b", "j", "e", "c", "t", "/">>
\* "无链接"
NoLink == <<"wu", "lian", "jie">>
\* "..."
Ellipsis == <<".", ".", ".">>

\* _normalize_url
normalize_url(url) ==
    LET val == Strip(url) IN
    IF val = <<>> THEN <<>>
    ELSE IF Len(val) >= 2 /\ SubSeq(val, 1, 2) = <<"/", "/">> THEN HttpsScheme \o val
    ELSE val

\* a plausible slip: an item without url and without numeric id gets no link
\* text at all
build_subject_url_empty(item) ==
    LET direct_url == normalize_url(StrOrEmpty(item.url))
        subject_id == to_int(item.id)
    IN  IF direct_url # <<>> THEN direct_url
        ELSE IF subject_id = <<>> THEN <<>>
        ELSE SubjectUrlPrefix \o IntToStr(subject_id[1])

\* _build_subject_url (defined where _to_int does not raise)
build_subject_url(item) ==
    LET direct_url == normalize_url(StrOrEmpty(item.url))
        subject_id == to_int(item.id)
    IN  IF direct_url # <<>> THEN direct_url
        ELSE IF subject_id = <<>> THEN NoLink
        ELSE SubjectUrlPrefix \o IntToStr(subject_id[1])

\* str.replace("\n", " ")
ReplaceNewlines(str) ==
    [i \in 1..Len(str) |-> IF str[i] = "\n" THEN " " ELSE str[i]]

\* a plausible slip: the cut text keeps its trailing whitespace
safe_summary_no_rstrip(item, limit) ==
    LET summary == ReplaceNewlines(Strip(StrOrEmpty(item.summary))) IN
    IF summary = <<>> THEN <<>>
    ELSE IF Len(summary) <= limit THEN summary
    ELSE SubSeq(summary, 1, limit) \o Ellipsis

\* _safe_summary
safe_summary(item, limit) ==
    LET summary == ReplaceNewlines(Strip(StrOrEmpty(item.summary))) IN
    IF summary = <<>> THEN <<>>
    ELSE IF Len(summary) <= limit THEN summary
    ELSE RStrip(SubSeq(summary, 1, limit)) \o Ellipsis

ItemsMissing == [t |-> "missing", v |-> <<>>]
ItemsNotList == [t |-> "notlist", v |-> <<>>]
ItemsList(v) == [t |-> "list", v |-> v]

\* _get_rating_total (defined where _to_int does not raise)
get_rating_total(item) ==
    IF ~item.rating_isdict THEN 0
    ELSE LET total == to_int(item.total) IN
         IF total # <<>> THEN total[1] ELSE 0

\* a plausible slip: a descending order that puts a later entry before the
\* earlier entries of the same total (an ascending sort, reversed)
RECURSIVE InsertByTotal_unstable(_, _)
InsertByTotal_unstable(item, sorted) ==
    IF sorted = <<>> THEN <<item>>
    ELSE IF get_rating_total(Head(sorted)) > get_rating_total(item)
         THEN <<Head(sorted)>> \o InsertByTotal_unstable(item, Tail(sorted))
         ELSE <<item>> \o sorted

\* sorted(..., key=_get_rating_total, reverse=True): stable, descending
RECURSIVE InsertByTotal(_, _)
InsertByTotal(item, sorted) ==
    IF sorted = <<>> THEN <<item>>
    ELSE IF get_rating_total(Head(sorted)) >= get_rating_total(item)
         THEN <<Head(sorted)>> \o InsertByTotal(item, Tail(sorted))
         ELSE <<item>> \o sorted

RECURSIVE SortedByTotal(_)
SortedByTotal(items) ==
    IF items = <<>> THEN <<>>
    ELSE InsertByTotal(items[Len(items)],
                       SortedByTotal(SubSeq(items, 1, Len(items) - 1)))

\* _build_render_items raises when a _to_int call in it raises
build_render_items_raises(items, sort_by_rating_total) ==
    \E i \in 1..Len(items) :
        /\ items[i].isdict
        /\ \/ to_int_raises(items[i].id)
           \/ items[i].rating_isdict /\ to_int_raises(items[i].total)

\* _build_render_items (the fields of a render item the handlers' results
\* are told apart by: rank, subject_id, rating_total, url, summary)
build_render_items(items, sort_by_rating_total) ==
    LET normalized_items == SelectSeq(items, LAMBDA item : item.isdict)
        source_items ==
            IF sort_by_rating_total THEN SortedByTotal(normalized_items)
            ELSE normalized_items
    IN  [index \in 1..Len(source_items) |->
            LET item == source_items[index]
                sid == to_int(item.id)
            IN  [rank |-> index,
                 subject_id |-> IF sid # <<>> THEN sid[1] ELSE 0,
                 url |-> build_subject_url(item),
                 rating_total |-> get_rating_total(item),
                 summary |-> safe_summary(item, DEFAULT_SUMMARY_LIMIT)]]

\* _get_day_display_info: <<date, weekday_text>>
get_day_display_info(day, fallback_date, fallback_weekday_id) ==
    LET weekday == day.weekday
        fromObj ==
            IF ~weekday.isdict THEN <<>>
            ELSE Strip(IF weekday.cn # <<>> THEN weekday.cn ELSE weekday.en)
        weekday_text ==
            IF fromObj = <<>> /\ fallback_weekday_id \in 1..7
            THEN WEEKDAY_CN_MAP[fallback_weekday_id]
            ELSE fromObj
        parsed_date == extract_day_date(day)
    IN  <<IF parsed_date # <<>> THEN parsed_date[1] ELSE fallback_date,
          weekday_text>>


(***************************************************************************)
(* Exceptions and results.                                                 *)
(*                                                                         *)
(* Exception types: "TimeoutError" (asyncio.TimeoutError), "ClientError"   *)
(* (aiohttp.ClientError), "RuntimeError", "Exception" (any other subclass  *)
(* of Exception), "CancelledError" (asyncio.CancelledError, a              *)
(* BaseException that is not an Exception).                                *)
(*                                                                         *)
(* A result is what a handler yields: event.plain_result(text) or          *)
(* event.image_result(url).  A text is [prefix, body, data]; the tags      *)
(* stand for the literal messages of src/main.py:                          *)
(*   TODAY_FAILED    获取今日新番失败：     WEEKDAY_FAILED  获取指定新番失败：  *)
(*   SEARCH_FAILED   番剧搜索失败：         DETAIL_FAILED   番剧详情查询失败：  *)
(*   DAY_FAILED      获取新番失败：         NO_DATA         暂无对应新番数据。  *)
(*   TIMEOUT  请求 Bangumi 超时，请稍后重试。   NETWORK  网络异常，请稍后重试。  *)
(*   UNKNOWN  发生未知错误，请稍后重试。        BAD_STRUCTURE 返回数据结构异常。 *)
(*   SUBJECT_NOT_FOUND  未找到对应番剧，请检查 ID 是否正确。                   *)
(***************************************************************************)
Exc(type, msg) == [type |-> type, msg |-> msg]
CancelledError == Exc("CancelledError", "")

\* a plausible slip: cancellation taken for an Exception, as it was before
\* Python 3.8
IsException_py37(exc) == TRUE

\* isinstance(exc, Exception): what an "except Exception" clause catches
IsException(exc) == exc.type # "CancelledError"

Plain(prefix, body, data) ==
    [kind |-> "plain", prefix |-> prefix, body |-> body, data |-> data]
Image(data) ==
    [kind |-> "image", prefix |-> "DAY_IMAGE", body |-> "", data |-> data]

FailPrefixes ==
    {"TODAY_FAILED", "WEEKDAY_FAILED", "SEARCH_FAILED", "DETAIL_FAILED", "DAY_FAILED"}

FailPrefix(c) ==
    CASE c = "today" -> "TODAY_FAILED"
      [] c = "weekday" -> "WEEKDAY_FAILED"
      [] c = "search" -> "SEARCH_FAILED"
      [] c = "detail" -> "DETAIL_FAILED"

\* a function's way out: it returns value, or raises exc[1]
Return(value) == [exc |-> <<>>, value |-> value]
Raise(e) == [exc |-> <<e>>, value |-> <<>>]

(***************************************************************************)
(* What an HTTP call can come to.  Transport: "timeout", "client_error",   *)
(* "other_error", and "cancelled" (the host cancelled the task while the   *)
(* call was in flight).  An answer: "response" with its status, whether    *)
(* its body parses as JSON, and the parsed body.                           *)
(***************************************************************************)
Transport(kind) == [kind |-> kind, status |-> 0, json_ok |-> FALSE, data |-> <<>>]
Response(status, json_ok, data) ==
    [kind |-> "response", status |-> status, json_ok |-> json_ok, data |-> data]

\* the exception a failed await raises
TransportExc(outcome) ==
    CASE outcome.kind = "timeout" -> Exc("TimeoutError", "")
      [] outcome.kind = "client_error" -> Exc("ClientError", "")
      [] outcome.kind = "other_error" -> Exc("Exception", "")
      [] outcome.kind = "cancelled" -> CancelledError

(***************************************************************************)
(* Calendar client.                                                        *)
(***************************************************************************)
\* _fetch_calendar; data is [islist, v]
fetch_calendar(outcome) ==
    IF outcome.kind # "response" THEN Raise(TransportExc(outcome))
    ELSE IF outcome.status # 200 THEN Raise(Exc("RuntimeError", "API_NON_200"))
    ELSE IF ~outcome.json_ok THEN Raise(Exc("RuntimeError", "API_INVALID_JSON"))
    ELSE IF ~outcome.data.islist THEN Raise(Exc("RuntimeError", "API_BAD_STRUCTURE"))
    ELSE Return(SelectSeq(outcome.data.v, LAMBDA item : item.isdict))

\* _parse_search_payload; data is [isdict, data, list, total], the fields
\* data and list being [islist, v]
parse_search_payload(data) ==
    IF ~data.isdict THEN Raise(Exc("RuntimeError", "SEARCH_API_BAD_STRUCTURE"))
    ELSE
        LET raw_items == IF data.data.islist THEN data.data ELSE data.list IN
        IF ~raw_items.islist
        THEN Raise(Exc("RuntimeError", "SEARCH_API_BAD_STRUCTURE"))
        ELSE IF to_int_raises(data.total) THEN Raise(Exc("Exception", ""))
        ELSE
            LET items == SelectSeq(raw_items.v, LAMBDA item : item.isdict)
                total == to_int(data.total)
            IN  Return(<<items, IF total # <<>> THEN total[1] ELSE Len(items)>>)

\* a plausible slip: only a non-200 status and a transport exception reach
\* the GET; what the 200 branch raises leaves the function
search_post_narrow(outcome) ==
    IF outcome.kind # "response"
    THEN [returned |-> FALSE, exc |-> <<>>, value |-> <<>>]
    ELSE IF outcome.status = 200 THEN
        IF ~outcome.json_ok
        THEN [returned |-> FALSE,
              exc |-> <<Exc("RuntimeError", "SEARCH_API_INVALID_JSON")>>,
              value |-> <<>>]
        ELSE LET parsed == parse_search_payload(outcome.data) IN
             [returned |-> parsed.exc = <<>>, exc |-> parsed.exc,
              value |-> parsed.value]
    ELSE [returned |-> FALSE, exc |-> <<>>, value |-> <<>>]

\* a plausible slip: the 200 branch stores the result without returning it
search_post_no_return(outcome) ==
    [returned |-> FALSE,
     exc |-> IF outcome.kind = "cancelled" THEN <<CancelledError>> ELSE <<>>,
     value |-> <<>>]

\* _search_anime_subjects, the POST attempt (the try block): it returns the
\* parsed payload, or raises exc[1] out of the function, or falls through to
\* the GET (returned = FALSE, exc = <<>>).  "except Exception" catches what
\* the block raises: the transport's exception, response.json()'s, and
\* _parse_search_payload's.
search_post(outcome) ==
    LET raised ==
            IF outcome.kind # "response" THEN <<TransportExc(outcome)>>
            ELSE IF outcome.status = 200 THEN
                IF ~outcome.json_ok THEN <<Exc("Exception", "")>>
                ELSE parse_search_payload(outcome.data).exc
            ELSE <<>>
    IN  IF raised # <<>> THEN
            IF IsException(raised[1])
            THEN [returned |-> FALSE, exc |-> <<>>, value |-> <<>>]
            ELSE [returned |-> FALSE, exc |-> raised, value |-> <<>>]
        ELSE IF outcome.status = 200
        THEN [returned |-> TRUE, exc |-> <<>>,
              value |-> parse_search_payload(outcome.data).value]
        ELSE [returned |-> FALSE, exc |-> <<>>, value |-> <<>>]

\* _search_anime_subjects, the GET fallback
search_get(outcome) ==
    IF outcome.kind # "response" THEN Raise(TransportExc(outcome))
    ELSE IF outcome.status # 200
    THEN Raise(Exc("RuntimeError", "SEARCH_API_NON_200"))
    ELSE IF ~outcome.json_ok
    THEN Raise(Exc("RuntimeError", "SEARCH_API_INVALID_JSON"))
    ELSE parse_search_payload(outcome.data)

\* a plausible slip: the 404 test left out
fetch_subject_detail_no404(outcome) ==
    IF outcome.kind # "response" THEN Raise(TransportExc(outcome))
    ELSE IF outcome.status # 200
    THEN Raise(Exc("RuntimeError", "DETAIL_API_NON_200"))
    ELSE IF ~outcome.json_ok
    THEN Raise(Exc("RuntimeError", "DETAIL_API_INVALID_JSON"))
    ELSE IF ~outcome.data.isdict
    THEN Raise(Exc("RuntimeError", "DETAIL_API_BAD_STRUCTURE"))
    ELSE Return(outcome.data)

\* _fetch_subject_detail; data is [isdict, id]
fetch_subject_detail(outcome) ==
    IF outcome.kind # "response" THEN Raise(TransportExc(outcome))
    ELSE IF outcome.status = 404
    THEN Raise(Exc("RuntimeError", "SUBJECT_NOT_FOUND"))
    ELSE IF outcome.status # 200
    THEN Raise(Exc("RuntimeError", "DETAIL_API_NON_200"))
    ELSE IF ~outcome.json_ok
    THEN Raise(Exc("RuntimeError", "DETAIL_API_INVALID_JSON"))
    ELSE IF ~outcome.data.isdict
    THEN Raise(Exc("RuntimeError", "DETAIL_API_BAD_STRUCTURE"))
    ELSE Return(outcome.data)


(***************************************************************************)
(* Command handlers: the code between two awaits is one step.              *)
(***************************************************************************)
\* a plausible slip: the last clause, "except Exception", left out
handler_except_no_catch_all(c, exc) ==
    IF exc.type = "TimeoutError" THEN <<Plain(FailPrefix(c), "TIMEOUT", <<>>)>>
    ELSE IF exc.type = "ClientError" THEN <<Plain(FailPrefix(c), "NETWORK", <<>>)>>
    ELSE IF exc.type = "RuntimeError" THEN <<Plain(FailPrefix(c), exc.msg, <<>>)>>
    ELSE <<>>

\* a plausible slip: a timeout reported by the network-error clause
handler_except_timeout_as_network(c, exc) ==
    IF exc.type \in {"TimeoutError", "ClientError"}
    THEN <<Plain(FailPrefix(c), "NETWORK", <<>>)>>
    ELSE IF exc.type = "RuntimeError" THEN <<Plain(FailPrefix(c), exc.msg, <<>>)>>
    ELSE IF IsException(exc) THEN <<Plain(FailPrefix(c), "UNKNOWN", <<>>)>>
    ELSE <<>>

\* the except clauses of a handler: the results they yield, <<>> when no
\* clause catches exc (it leaves the handler)
handler_except(c, exc) ==
    IF exc.type = "TimeoutError" THEN <<Plain(FailPrefix(c), "TIMEOUT", <<>>)>>
    ELSE IF exc.type = "ClientError" THEN <<Plain(FailPrefix(c), "NETWORK", <<>>)>>
    ELSE IF exc.type = "RuntimeError" THEN <<Plain(FailPrefix(c), exc.msg, <<>>)>>
    ELSE IF IsException(exc) THEN <<Plain(FailPrefix(c), "UNKNOWN", <<>>)>>
    ELSE <<>>

\* a plausible slip: the except branch only logs
render_outcome_no_fallback(exc, args) ==
    IF exc = <<>> THEN [emits |-> <<Image(args)>>, exc |-> <<>>]
    ELSE IF IsException(exc[1]) THEN [emits |-> <<>>, exc |-> <<>>]
    ELSE [emits |-> <<>>, exc |-> exc]

\* _send_day_result, its try/except around _render_day_image: exc is what
\* the rendering raised (<<>>: it returned the image's url)
render_outcome(exc, args) ==
    IF exc = <<>> THEN [emits |-> <<Image(args)>>, exc |-> <<>>]
    ELSE IF IsException(exc[1])
    THEN [emits |-> <<Plain("DAY_TEXT", "", args)>>, exc |-> <<>>]
    ELSE [emits |-> <<>>, exc |-> exc]

NoRender == <<>>

\* _send_day_result up to the await of html_render: the results yielded,
\* the exception raised, and the arguments of the pending html_render call
\* (await = <<>>: no call is pending)
send_day_result(day, fallback_date, fallback_weekday_id, template) ==
    IF day = <<>>
    THEN [emits |-> <<Plain("NO_DATA", "", <<>>)>>, exc |-> <<>>, await |-> NoRender]
    ELSE IF day[1].items.t = "notlist"
    THEN [emits |-> <<Plain("DAY_FAILED", "BAD_STRUCTURE", <<>>)>>, exc |-> <<>>,
          await |-> NoRender]
    ELSE IF build_render_items_raises(day[1].items.v, TRUE)
    THEN [emits |-> <<>>, exc |-> <<Exc("Exception", "")>>, await |-> NoRender]
    ELSE
        LET render_items == build_render_items(day[1].items.v, TRUE)
            info == get_day_display_info(day[1], fallback_date, fallback_weekday_id)
            args == <<info[1], info[2], render_items>>
        IN  IF render_items = <<>>
            THEN [emits |-> <<Plain("NO_DATA", "", <<>>)>>, exc |-> <<>>,
                  await |-> NoRender]
            ELSE IF ~template
            THEN \* _render_day_image raises before it awaits anything
                 LET r == render_outcome(<<Exc("RuntimeError", "TEMPLATE_NOT_LOADED")>>,
                                         args)
                 IN  [emits |-> r.emits, exc |-> r.exc, await |-> NoRender]
            ELSE [emits |-> <<>>, exc |-> <<>>, await |-> <<args>>]

\* anime_search after _search_anime_subjects returned <<items, total>>
search_result(keyword, found) ==
    LET items == found[1]
        total == found[2]
        shown == SubSeq(items, 1,
                        IF Len(items) < SEARCH_DEFAULT_LIMIT THEN Len(items)
                        ELSE SEARCH_DEFAULT_LIMIT)
    IN  IF items = <<>>
        THEN [emits |-> <<Plain("SEARCH_EMPTY", "", <<keyword>>)>>, exc |-> <<>>]
        ELSE IF build_render_items_raises(shown, FALSE)
        THEN [emits |-> <<>>, exc |-> <<Exc("Exception", "")>>]
        ELSE [emits |-> <<Plain("SEARCH_TEXT", "",
                                <<keyword, total, build_render_items(shown, FALSE)>>)>>,
              exc |-> <<>>]

\* anime_detail after _fetch_subject_detail returned detail:
\* _render_subject_detail_text runs _to_int on the numeric fields
detail_result(detail) ==
    IF to_int_raises(detail.id)
    THEN [emits |-> <<>>, exc |-> <<Exc("Exception", "")>>]
    ELSE LET sid == to_int(detail.id) IN
         [emits |-> <<Plain("DETAIL_TEXT", "",
                            <<IF sid # <<>> THEN sid[1] ELSE 0>>)>>,
          exc |-> <<>>]

\* _extract_search_keyword; the message is [matched, group]: whether
\* ANIME_SEARCH_CMD_PATTERN matches it, and its group 1 (<<>> for None)
extract_search_keyword(message, fallback) ==
    IF message.matched THEN Strip(message.group) ELSE Strip(fallback)

\* a plausible slip: the id 0 passes the validation
extract_subject_id_allow_zero(message, fallback) ==
    LET raw == IF message.matched THEN Strip(message.group)
               ELSE IF fallback # <<>> THEN Strip(fallback)
               ELSE <<>>
        parsed == to_int(JStr(raw))
    IN  IF raw = <<>> THEN <<>>
        ELSE IF parsed = <<>> \/ parsed[1] < 0 THEN <<>>
        ELSE parsed

\* _extract_subject_id: <<id>> or <<>>; the message is [matched, group] for
\* ANIME_DETAIL_CMD_PATTERN
extract_subject_id(message, fallback) ==
    LET raw == IF message.matched THEN Strip(message.group)
               ELSE IF fallback # <<>> THEN Strip(fallback)
               ELSE <<>>
        parsed == to_int(JStr(raw))
    IN  IF raw = <<>> THEN <<>>
        ELSE IF parsed = <<>> \/ parsed[1] <= 0 THEN <<>>
        ELSE parsed


(***************************************************************************)
(* The inputs the model draws from.                                        *)
(***************************************************************************)
\* now(Asia/Shanghai).date(): day 8 is a Monday, day 9 a Tuesday
Todays == {8, 9}

\* weekday objects: none, Monday by id, Tuesday by English abbreviation
WeekdayObjs ==
    {NoWeekday,
     WeekdayObj(JInt(1), <<>>, <<>>),
     WeekdayObj(JNone, <<>>, <<"T", "u", "e">>)}

\* date fields: none, and three Mondays a week apart (days 1, 8, 15)
DateFields == {DateNone, DateIso(1), DateIso(8), DateIso(15)}

\* the items fields a calendar's buckets carry, one per position
ItemsPool ==
    <<ItemsList(<<Item(JInt(11), JInt(5)), NonDictItem, Item(JInt(12), JInt(50))>>),
      ItemsList(<<ItemNoRating(JInt(21))>>),
      ItemsNotList,
      ItemsList(<<NonDictItem>>),
      ItemsList(<<Item(JInt(31), JFloatInf)>>)>>

NonDictEntry ==
    [isdict |-> FALSE, weekday |-> NoWeekday, date |-> DateNone, items |-> ItemsMissing]

\* a calendar array's shape: per element, a non-object or a bucket's weekday
\* and date
Shapes == {NonDictEntry} \cup
          {Bucket(w, d, ItemsMissing) : w \in WeekdayObjs, d \in DateFields}

ShapeSeqs == UNION {[1..n -> Shapes] : n \in 0..MaxCal}

\* the calendar of shape sh whose element i carries ItemsPool[i + v]
CalendarOf(sh, v) ==
    [i \in 1..Len(sh) |->
        IF sh[i].isdict
        THEN Bucket(sh[i].weekday, sh[i].date,
                    ItemsPool[((i + v) % Len(ItemsPool)) + 1])
        ELSE sh[i]]

Statuses == {200, 204, 404, 500}

TransportOutcomes ==
    {Transport("timeout"), Transport("client_error"), Transport("other_error")}

BadStatusOutcomes == {Response(st, FALSE, <<>>) : st \in Statuses \ {200}}

CalendarOutcomes ==
    TransportOutcomes \cup BadStatusOutcomes
    \cup {Response(200, FALSE, <<>>),
          Response(200, TRUE, [islist |-> FALSE, v |-> <<>>])}
    \cup {Response(200, TRUE, [islist |-> TRUE, v |-> CalendarOf(sh, v)]) :
              sh \in ShapeSeqs, v \in 1..Len(ItemsPool)}

NotAList == [islist |-> FALSE, v |-> <<>>]
AList(v) == [islist |-> TRUE, v |-> v]

SearchItemLists ==
    {<<>>,
     <<Item(JInt(11), JInt(5)), NonDictItem, Item(JInt(12), JInt(50))>>,
     <<Item(JInt(31), JFloatInf)>>}

SearchPayloads ==
    {[isdict |-> FALSE, data |-> NotAList, list |-> NotAList, total |-> JNone],
     [isdict |-> TRUE, data |-> NotAList, list |-> NotAList, total |-> JNone]}
    \cup {[isdict |-> TRUE, data |-> AList(v), list |-> NotAList, total |-> t] :
              v \in SearchItemLists, t \in {JNone, JInt(7), JFloatInf}}
    \cup {[isdict |-> TRUE, data |-> NotAList, list |-> AList(v), total |-> JNone] :
              v \in SearchItemLists}

SearchOutcomes ==
    TransportOutcomes \cup BadStatusOutcomes
    \cup {Response(200, FALSE, <<>>)}
    \cup {Response(200, TRUE, p) : p \in SearchPayloads}

DetailPayloads ==
    {[isdict |-> FALSE, id |-> JNone],
     [isdict |-> TRUE, id |-> JInt(12)],
     [isdict |-> TRUE, id |-> JNone],
     [isdict |-> TRUE, id |-> JFloatInf]}

DetailOutcomes ==
    TransportOutcomes \cup BadStatusOutcomes
    \cup {Response(200, FALSE, <<>>)}
    \cup {Response(200, TRUE, p) : p \in DetailPayloads}

\* command messages: whether the command's pattern matches, and group 1
SearchMessages ==
    {[matched |-> m, group |-> g] : m \in BOOLEAN, g \in {<<>>, <<"k">>}}
SearchFallbacks == {<<>>, <<" ">>, <<"k", " ">>}

DetailMessages ==
    {[matched |-> m, group |-> g] : m \in BOOLEAN, g \in {<<>>, <<"1", "2">>, <<"0">>}}
DetailFallbacks == {<<>>, <<"7">>, <<"-", "5">>, <<"a">>, <<"0">>}

(***************************************************************************)
(* State.                                                                  *)
(***************************************************************************)
VARIABLES
    pc,             \* where the invocation is: "idle", the await it is
                    \* suspended at ("calendar", "search_post", "search_get",
                    \* "detail", "render"), "done" (the handler returned),
                    \* "raised" (an exception left the handler)
    cmd,            \* the command invoked: "today", "weekday", "search", "detail"
    today,          \* now(Asia/Shanghai).date()
    template,       \* whether self._day_template is loaded (non-empty)
    target,         \* anime_by_weekday: target_weekday_id
    query,          \* anime_search: query
    calendar,       \* the calendar _fetch_calendar returned
    day,            \* the bucket selected: <<day>> or <<>>
    render_args,    \* the pending html_render call's arguments: <<args>> or <<>>
    err,            \* the exception that reached the handler's except clauses
    log,            \* what the invocation did, in order: requests issued,
                    \* outcomes received, results yielded, exceptions raised
    argv,           \* anime_search / anime_detail: the message matched
                    \* against the command's pattern and the argument the
                    \* host parsed, [message, fallback]
    call            \* a direct call of one of the plugin's pure functions:
                    \* [fn, args, out], out being <<>> until it has returned
                    \* or raised (NoCall while a command handler runs)

vars == <<pc, cmd, today, template, target, query, calendar, day, render_args,
          err, log, call, argv>>

NoCall == [fn |-> "none", out |-> <<>>]

Argv(message, fallback) == [message |-> message, fallback |-> fallback]
NoArgv == Argv([matched |-> FALSE, group |-> <<>>], <<>>)

Request(what, arg) == [ev |-> "request", what |-> what, arg |-> arg]
Outcome(outcome) == [ev |-> "outcome", outcome |-> outcome]
Emit(res) == [ev |-> "emit", res |-> res]
Raised(exc) == [ev |-> "raise", exc |-> exc]
RenderOutcome(ok) == [ev |-> "render_outcome", ok |-> ok]

Emits(results) == [i \in 1..Len(results) |-> Emit(results[i])]

Requests == SelectSeq(log, LAMBDA e : e.ev = "request")
Emitted == SelectSeq(log, LAMBDA e : e.ev = "emit")

Init ==
    /\ pc = "idle"
    /\ cmd = "none"
    /\ today \in Todays
    /\ template \in BOOLEAN
    /\ target = 0
    /\ query = <<>>
    /\ calendar = <<>>
    /\ day = <<>>
    /\ render_args = <<>>
    /\ err = <<>>
    /\ log = <<>>
    /\ call = NoCall
    /\ argv = NoArgv

\* the end of a handler's try block: the results yielded in it, then the
\* except clauses on a raised exception; an exception no clause catches
\* leaves the handler
EndOfTry(c, done) ==
    LET caught == IF done.exc = <<>> THEN <<>> ELSE handler_except(c, done.exc[1])
        escapes == done.exc # <<>> /\ caught = <<>>
    IN  [events |-> Emits(done.emits) \o Emits(caught)
                    \o (IF escapes THEN <<Raised(done.exc[1])>> ELSE <<>>),
         pc |-> IF escapes THEN "raised" ELSE "done"]

\* anime_today up to its first await
anime_today ==
    /\ pc = "idle"
    /\ cmd' = "today"
    /\ log' = <<Request("GET_calendar", 0)>>
    /\ pc' = "calendar"
    /\ UNCHANGED <<today, template, call, argv, target, query, calendar, day,
                   render_args, err>>

\* anime_by_weekday up to its first await
anime_by_weekday ==
    /\ pc = "idle"
    /\ \E token \in WeekdayTokens :
        /\ cmd' = "weekday"
        /\ target' = WEEKDAY_TOKEN_TO_ID[token]
        /\ log' = <<Request("GET_calendar", 0)>>
        /\ pc' = "calendar"
    /\ UNCHANGED <<today, template, call, argv, query, calendar, day,
                   render_args, err>>

\* anime_today / anime_by_weekday from the end of _fetch_calendar's await to
\* the await of html_render or to the handler's end
DayStep(outcome) ==
    LET fetched == fetch_calendar(outcome)
        cal == IF fetched.exc = <<>> THEN fetched.value ELSE <<>>
        selected ==
            IF fetched.exc # <<>> THEN <<>>
            ELSE IF cmd = "today" THEN select_today(cal, today)
            ELSE select_by_weekday(cal, target, today)
        fallback_date ==
            IF cmd = "today" THEN today ELSE latest_weekday_date(today, target)
        fallback_weekday_id ==
            IF cmd = "today" THEN isoweekday(today) ELSE target
        sent ==
            IF fetched.exc # <<>>
            THEN [emits |-> <<>>, exc |-> fetched.exc, await |-> NoRender]
            ELSE send_day_result(selected, fallback_date, fallback_weekday_id,
                                 template)
        fin == EndOfTry(cmd, sent)
    IN  /\ calendar' = cal
        /\ day' = selected
        /\ render_args' = sent.await
        /\ err' = sent.exc
        /\ IF sent.await # <<>>
           THEN /\ pc' = "render"
                /\ log' = log \o <<Outcome(outcome)>>
           ELSE /\ pc' = fin.pc
                /\ log' = log \o <<Outcome(outcome)>> \o fin.events
        /\ UNCHANGED <<cmd, today, template, call, argv, target, query>>

\* _send_day_result from the end of html_render's await
RenderStep(exc) ==
    LET r == render_outcome(exc, render_args[1])
        fin == EndOfTry(cmd, r)
    IN  /\ err' = r.exc
        /\ pc' = fin.pc
        /\ log' = log \o <<RenderOutcome(exc = <<>>)>> \o fin.events
        /\ UNCHANGED <<cmd, today, template, call, argv, target, query,
                       calendar, day,
                       render_args>>

\* anime_search up to its first await
anime_search ==
    /\ pc = "idle"
    /\ \E message \in SearchMessages, keyword \in SearchFallbacks :
        LET q == extract_search_keyword(message, keyword) IN
        /\ cmd' = "search"
        /\ argv' = Argv(message, keyword)
        /\ query' = q
        /\ IF q = <<>>
           THEN /\ log' = <<Emit(Plain("USAGE_SEARCH", "", <<>>))>>
                /\ pc' = "done"
           ELSE /\ log' = <<Request("POST_search", 0)>>
                /\ pc' = "search_post"
    /\ UNCHANGED <<today, template, call, target, calendar, day, render_args,
                   err>>

\* anime_search from the end of the POST's await
SearchPostStep(outcome) ==
    LET post == search_post(outcome)
        done == IF post.returned THEN search_result(query, post.value)
                ELSE [emits |-> <<>>, exc |-> post.exc]
        fin == EndOfTry(cmd, done)
    IN  /\ IF ~post.returned /\ post.exc = <<>>
           THEN /\ pc' = "search_get"
                /\ log' = log \o <<Outcome(outcome), Request("GET_search", 0)>>
                /\ err' = err
           ELSE /\ pc' = fin.pc
                /\ log' = log \o <<Outcome(outcome)>> \o fin.events
                /\ err' = done.exc
        /\ UNCHANGED <<cmd, today, template, call, argv, target, query,
                       calendar, day,
                       render_args>>

\* anime_search from the end of the GET's await
SearchGetStep(outcome) ==
    LET got == search_get(outcome)
        done == IF got.exc = <<>> THEN search_result(query, got.value)
                ELSE [emits |-> <<>>, exc |-> got.exc]
        fin == EndOfTry(cmd, done)
    IN  /\ pc' = fin.pc
        /\ log' = log \o <<Outcome(outcome)>> \o fin.events
        /\ err' = done.exc
        /\ UNCHANGED <<cmd, today, template, call, argv, target, query,
                       calendar, day,
                       render_args>>

\* anime_detail up to its first await
anime_detail ==
    /\ pc = "idle"
    /\ \E message \in DetailMessages, subject_id \in DetailFallbacks :
        LET parsed_id == extract_subject_id(message, subject_id) IN
        /\ cmd' = "detail"
        /\ argv' = Argv(message, subject_id)
        /\ IF parsed_id = <<>>
           THEN /\ log' = <<Emit(Plain("USAGE_DETAIL", "", <<>>))>>
                /\ pc' = "done"
           ELSE /\ log' = <<Request("GET_subject", parsed_id[1])>>
                /\ pc' = "detail"
    /\ UNCHANGED <<today, template, call, target, query, calendar, day,
                   render_args, err>>

\* anime_detail from the end of _fetch_subject_detail's await
DetailStep(outcome) ==
    LET fetched == fetch_subject_detail(outcome)
        done == IF fetched.exc = <<>> THEN detail_result(fetched.value)
                ELSE [emits |-> <<>>, exc |-> fetched.exc]
        fin == EndOfTry(cmd, done)
    IN  /\ pc' = fin.pc
        /\ log' = log \o <<Outcome(outcome)>> \o fin.events
        /\ err' = done.exc
        /\ UNCHANGED <<cmd, today, template, call, argv, target, query,
                       calendar, day,
                       render_args>>

\* the calendar call of anime_today / anime_by_weekday ends
calendar_fetched ==
    /\ pc = "calendar"
    /\ \E outcome \in CalendarOutcomes : DayStep(outcome)

\* the POST of _search_anime_subjects ends
search_post_done ==
    /\ pc = "search_post"
    /\ \E outcome \in SearchOutcomes : SearchPostStep(outcome)

\* the GET of _search_anime_subjects ends
search_get_done ==
    /\ pc = "search_get"
    /\ \E outcome \in SearchOutcomes : SearchGetStep(outcome)

\* the call of _fetch_subject_detail ends
anime_detail_fetched ==
    /\ pc = "detail"
    /\ \E outcome \in DetailOutcomes : DetailStep(outcome)

\* html_render returns the image's url, or raises
render_done ==
    /\ pc = "render"
    /\ \E ok \in BOOLEAN :
        RenderStep(IF ok THEN <<>> ELSE <<Exc("Exception", "")>>)

\* the host cancels the invocation's task: the await it is suspended at
\* raises CancelledError, which passes the client function's "async with"
\* blocks and then meets the except clauses around the await: "except
\* Exception" in the POST attempt and around _render_day_image, then the
\* handler's
cancel ==
    /\ pc \in {"calendar", "search_post", "search_get", "detail", "render"}
    /\ IF pc = "search_post" /\ IsException(CancelledError)
       THEN /\ pc' = "search_get"
            /\ log' = log \o <<Outcome(Transport("cancelled")),
                                Request("GET_search", 0)>>
            /\ err' = err
       ELSE LET inner == IF pc = "render"
                         THEN render_outcome(<<CancelledError>>, render_args[1])
                         ELSE [emits |-> <<>>, exc |-> <<CancelledError>>]
                fin == EndOfTry(cmd, inner)
            IN  /\ pc' = fin.pc
                /\ log' = log \o <<Outcome(Transport("cancelled"))>> \o fin.events
                /\ err' = inner.exc
    /\ UNCHANGED <<cmd, today, template, call, argv, target, query, calendar,
                   day,
                   render_args>>

Next ==
    \/ anime_today
    \/ anime_by_weekday
    \/ anime_search
    \/ anime_detail
    \/ calendar_fetched
    \/ search_post_done
    \/ search_get_done
    \/ anime_detail_fetched
    \/ render_done
    \/ cancel

Spec == Init /\ [][Next]_vars

(***************************************************************************)
(* Direct calls of the pure functions: the view-model builder, the summary *)
(* truncation and the weekday resolution of a bucket, on inputs drawn from *)
(* bounded sets.                                                           *)
(***************************************************************************)
\* the sequences over alphabet of length at most n
SeqsUpTo(alphabet, n) == UNION {[1..k -> alphabet] : k \in 0..n}

\* items of distinct ids whose rating totals are coerced: 5, 50, "5" (5
\* again), 0, -3, no rating object (0); a non-object entry; a total of inf
RatedItems ==
    {Item(JInt(1), JInt(5)),
     Item(JInt(2), JInt(50)),
     Item(JInt(3), JStr(<<"5">>)),
     Item(JInt(4), JInt(0)),
     Item(JInt(5), JInt(0 - 3)),
     ItemNoRating(JInt(6)),
     NonDictItem,
     Item(JInt(7), JFloatInf)}

\* the values a rating's total takes: absent, ints, floats (by integral
\* part), inf/nan, numeric and non-numeric strings, another type
TotalValues ==
    {JNone, JInt(0), JInt(7), JInt(0 - 7), JFloat(3), JFloat(0 - 3), JFloatInf,
     JStr(<<>>), JStr(<<"4", "2">>), JStr(<<" ", "8", "\n">>), JStr(<<"-", "9">>),
     JStr(<<"+", "6">>), JStr(<<"3", ".", "5">>), JStr(<<"x">>), JOther}

\* the values an item's id takes
IdValues ==
    {JNone, JInt(12), JInt(0 - 3), JInt(0), JStr(<<"7">>), JStr(<<"x">>),
     JFloat(2), JOther, JFloatInf}

\* the values an item's url takes: absent, falsy and truthy non-strings,
\* and the texts over '/', ' ', 'x' of length at most MaxUrl
UrlValues ==
    {JNone, JInt(0), JInt(5)} \cup {JStr(str) : str \in SeqsUpTo({"/", " ", "x"}, MaxUrl)}

\* the values an item's summary takes: absent, and the texts over 'a',
\* ' ', '\n' of length at most MaxText
SummaryValues ==
    {JNone} \cup {JStr(str) : str \in SeqsUpTo({"a", " ", "\n"}, MaxText)}

\* a text of LongTextLen characters without whitespace
LongText == [i \in 1..LongTextLen |-> "a"]

\* the weekday fields a bucket carries
WeekdayIds ==
    {JNone, JInt(1), JInt(3), JInt(7), JInt(0), JInt(8), JStr(<<"2">>),
     JStr(<<"x">>), JFloat(4), JFloatInf, JOther}
WeekdayCns ==
    {<<>>, WEEKDAY_CN_MAP[1], WEEKDAY_CN_MAP[5],
     <<" ">> \o WEEKDAY_CN_MAP[7] \o <<" ">>, <<"xing", "qi">>}
WeekdayEns ==
    {<<>>, <<"M", "o", "n">>, <<"F", "R", "I", "D", "A", "Y">>,
     <<"t", "u", "e", "s">>, <<" ", "s", "u", "n", " ">>,
     <<"w", "e", "d", "n", "e", "s", "d", "a", "y">>, <<"m", "o">>}
WeekdayFields ==
    {NoWeekday} \cup
    {WeekdayObj(id, cn, en) : id \in WeekdayIds, cn \in WeekdayCns, en \in WeekdayEns}

\* the arguments of a call: the items and the sort flag of
\* _build_render_items, the item (items[1]) and the limit of _safe_summary,
\* the bucket of _extract_weekday_id
Args(items, sort, limit, bucket) ==
    [items |-> items, sort |-> sort, limit |-> limit, day |-> bucket]
BuildArgs(items, sort) == Args(items, sort, 0, NonDictEntry)
SummaryArgs(item, limit) == Args(<<item>>, FALSE, limit, NonDictEntry)
WeekdayArgs(bucket) == Args(<<>>, FALSE, 0, bucket)

Call(fn, args) == [fn |-> fn, args |-> args, out |-> <<>>]

\* the calls made
Calls ==
    {Call("build_render_items", BuildArgs(items, sort)) :
        items \in SeqsUpTo(RatedItems, MaxItems), sort \in BOOLEAN}
    \cup {Call("build_render_items", BuildArgs(<<Item(JInt(1), total)>>, TRUE)) :
              total \in TotalValues}
    \cup {Call("build_render_items", BuildArgs(<<ItemUrl(id, url)>>, TRUE)) :
              id \in IdValues, url \in UrlValues}
    \cup {Call("safe_summary", SummaryArgs(ItemSummary(summary), limit)) :
              summary \in SummaryValues, limit \in 1..MaxLimit}
    \cup {Call("safe_summary",
               SummaryArgs(ItemSummary(JStr(LongText)), DEFAULT_SUMMARY_LIMIT))}
    \cup {Call("extract_weekday_id",
               WeekdayArgs(Bucket(weekday, DateNone, ItemsMissing))) :
              weekday \in WeekdayFields}

Returned(value) == <<[raised |-> FALSE, value |-> value]>>
RaisedOut == <<[raised |-> TRUE, value |-> <<>>]>>

InitCalls ==
    /\ call \in Calls
    /\ pc = "idle"
    /\ cmd = "none"
    /\ today = 8
    /\ template = TRUE
    /\ target = 0
    /\ query = <<>>
    /\ calendar = <<>>
    /\ day = <<>>
    /\ render_args = <<>>
    /\ err = <<>>
    /\ log = <<>>
    /\ argv = NoArgv

\* _build_render_items(items, sort_by_rating_total=...)
call_build_render_items ==
    /\ call.fn = "build_render_items" /\ call.out = <<>>
    /\ call' = [call EXCEPT !.out =
                    IF build_render_items_raises(call.args.items, call.args.sort)
                    THEN RaisedOut
                    ELSE Returned(build_render_items(call.args.items, call.args.sort))]
    /\ UNCHANGED <<pc, cmd, today, template, target, query, calendar, day,
                   render_args, err, log, argv>>

\* _safe_summary(item, limit=...)
call_safe_summary ==
    /\ call.fn = "safe_summary" /\ call.out = <<>>
    /\ call' = [call EXCEPT !.out = Returned(safe_summary(call.args.items[1], call.args.limit))]
    /\ UNCHANGED <<pc, cmd, today, template, target, query, calendar, day,
                   render_args, err, log, argv>>

\* _extract_weekday_id(day)
call_extract_weekday_id ==
    /\ call.fn = "extract_weekday_id" /\ call.out = <<>>
    /\ call' = [call EXCEPT !.out =
                    IF extract_weekday_id_raises(call.args.day)
                    THEN RaisedOut
                    ELSE Returned(extract_weekday_id(call.args.day))]
    /\ UNCHANGED <<pc, cmd, today, template, target, query, calendar, day,
                   render_args, err, log, argv>>

NextCalls ==
    \/ call_build_render_items
    \/ call_safe_summary
    \/ call_extract_weekday_id

SpecCalls == InitCalls /\ [][NextCalls]_vars

(***************************************************************************)
(* Properties.                                                             *)
(***************************************************************************)
IsRequest(e, what) == e.ev = "request" /\ e.what = what
IsOutcomeOf(e, kind) == e.ev = "outcome" /\ e.outcome.kind = kind
IsEmit(e) == e.ev = "emit"

\* the day command's calendar call returned a calendar
CalendarFetched ==
    /\ cmd \in {"today", "weekday"}
    /\ Len(log) >= 2
    /\ IsOutcomeOf(log[2], "response")
    /\ log[2].outcome.status = 200
    /\ log[2].outcome.json_ok
    /\ log[2].outcome.data.islist

\* positions of the calendar's buckets that resolve to weekday w, those of
\* them with a parseable date, and those dated on or before base
CandidatesAt(w) == {i \in 1..Len(calendar) : extract_weekday_id(calendar[i]) = <<w>>}
DatedAt(w) == {i \in CandidatesAt(w) : calendar[i].date.t = "iso"}
PastAt(w, base) == {i \in DatedAt(w) : calendar[i].date.d <= base}
FirstOf(S) == CHOOSE i \in S : \A j \in S : i <= j

C2_SelectToday ==
    (cmd = "today" /\ CalendarFetched) =>
        LET w == isoweekday(today)
            C == CandidatesAt(w)
            D == DatedAt(w)
            P == PastAt(w, today)
            latestPast ==
                {i \in P : \A j \in P : calendar[j].date.d <= calendar[i].date.d}
            earliest ==
                {i \in D : \A j \in D : calendar[j].date.d >= calendar[i].date.d}
            datedToday ==
                {i \in 1..Len(calendar) :
                    calendar[i].date.t = "iso" /\ calendar[i].date.d = today}
        IN  /\ (day = <<>>) <=> (calendar = <<>>)
            /\ C # {} =>
                /\ day # <<>>
                /\ day[1] \in {calendar[i] : i \in C}
                /\ P # {} => day = <<calendar[FirstOf(latestPast)]>>
                /\ (D # {} /\ P = {}) => day = <<calendar[FirstOf(earliest)]>>
                /\ D = {} => day = <<calendar[FirstOf(C)]>>
            /\ (C = {} /\ datedToday # {}) => day = <<calendar[FirstOf(datedToday)]>>
            /\ (C = {} /\ datedToday = {} /\ calendar # <<>>) => day = <<calendar[1]>>

\* C2's case: a bucket of today's weekday is selected although an earlier
\* bucket, with no weekday object, carries exactly today's date
C2_Witness ==
    /\ cmd = "today" /\ CalendarFetched
    /\ \E i, j \in 1..Len(calendar) :
        /\ i < j
        /\ ~calendar[i].weekday.isdict
        /\ calendar[i].date = DateIso(today)
        /\ extract_weekday_id(calendar[j]) = <<isoweekday(today)>>
        /\ calendar[j].date # DateIso(today)
        /\ day = <<calendar[j]>>

\* the search command's POST has ended (not by cancellation) in log[2]
SearchPostEnded ==
    /\ cmd = "search"
    /\ Len(log) >= 2
    /\ IsRequest(log[1], "POST_search")
    /\ log[2].ev = "outcome"
    /\ log[2].outcome.kind # "cancelled"

GetIssued == \E i \in 1..Len(log) : IsRequest(log[i], "GET_search")

\* an answer 200 whose body is JSON, an object holding a list under "data"
\* or "list"
WellFormed(o) ==
    /\ o.kind = "response" /\ o.status = 200 /\ o.json_ok
    /\ o.data.isdict
    /\ o.data.data.islist \/ o.data.list.islist

\* an answer 200 whose body is not that
Malformed(o) == o.kind = "response" /\ o.status = 200 /\ ~WellFormed(o)

\* the POST returned a parsed result
PostUsable(o) == WellFormed(o) /\ ~to_int_raises(o.data.total)

MalformedMessages ==
    {Plain("SEARCH_FAILED", "SEARCH_API_BAD_STRUCTURE", <<>>),
     Plain("SEARCH_FAILED", "SEARCH_API_INVALID_JSON", <<>>)}

\* C3 as stated: the GET is issued exactly when the POST fails by a non-200
\* status or a transport error; a POST answered 200 with a malformed body
\* never leads to a GET but fails with a malformed-payload error.
C3_Original ==
    SearchPostEnded =>
        LET o == log[2].outcome IN
        /\ GetIssued <=> (o.kind # "response" \/ o.status # 200)
        /\ Malformed(o) =>
            /\ ~GetIssued
            /\ pc = "done"
            /\ Len(Emitted) = 1
            /\ Emitted[1].res \in MalformedMessages

\* C3 amended: the GET is issued exactly when the POST attempt does not
\* return a parsed result (a non-200 status, a transport error or timeout,
\* and also a 200 answer whose body is malformed); a malformed-payload error
\* is reported only for a malformed answer to the GET.
C3_GetFallback ==
    SearchPostEnded =>
        LET o == log[2].outcome IN
        /\ GetIssued <=> ~PostUsable(o)
        /\ GetIssued => IsRequest(log[3], "GET_search")
        /\ \A i \in 1..Len(log) :
            (IsEmit(log[i]) /\ log[i].res \in MalformedMessages) =>
                /\ GetIssued
                /\ i = 5
                /\ log[4].ev = "outcome"
                /\ Malformed(log[4].outcome)

\* C3's case: a POST answered 200 with a malformed body, followed by the GET
C3_Witness ==
    /\ SearchPostEnded
    /\ Malformed(log[2].outcome)
    /\ GetIssued
    /\ pc = "done"
    /\ Emitted # <<>>
    /\ Emitted[1].res.prefix = "SEARCH_TEXT"

TimeoutMessage == Plain(FailPrefix(cmd), "TIMEOUT", <<>>)

UnknownMessage == Plain(FailPrefix(cmd), "UNKNOWN", <<>>)

\* C5: no handler lets an error reach the host: whatever error its client
\* call or the processing after it ends in (timeout, transport error, bad
\* status, malformed payload, any other Exception), the handler returns
\* after emitting exactly one failure message of its command, the generic
\* "unknown error" one for an unexpected kind.
C5_NeverPropagates ==
    /\ \A i \in 1..Len(log) : log[i].ev = "raise" => log[i].exc = CancelledError
    /\ pc = "raised" => err = <<CancelledError>>
    /\ (err # <<>> /\ err # <<CancelledError>>) =>
        /\ pc = "done"
        /\ Len(Emitted) = 1
        /\ log[Len(log)] = Emitted[1]
        /\ Emitted[1].res.kind = "plain"
        /\ Emitted[1].res.prefix = FailPrefix(cmd)
        /\ err[1].type = "TimeoutError" => Emitted[1].res.body = "TIMEOUT"
        /\ err[1].type = "ClientError" => Emitted[1].res.body = "NETWORK"
        /\ err[1].type = "RuntimeError" => Emitted[1].res.body = err[1].msg
        /\ err[1].type = "Exception" => Emitted[1].res = UnknownMessage
    /\ \A i \in 2..Len(log) :
        (IsOutcomeOf(log[i], "other_error") /\ ~IsRequest(log[i - 1], "POST_search")) =>
            /\ pc = "done"
            /\ Emitted = <<Emit(UnknownMessage)>>

\* C5's case: the processing after a successful calendar fetch raised an
\* unexpected exception and the weekday handler reported "unknown error"
C5_Witness ==
    /\ cmd = "weekday" /\ CalendarFetched
    /\ err = <<Exc("Exception", "")>>
    /\ pc = "done"
    /\ Emitted = <<Emit(UnknownMessage)>>

\* C6 as stated: a cancellation while a call is in flight makes the
\* handler's error path run, and the invocation ends having emitted a
\* failure message.
C6_Original ==
    \A i \in 1..Len(log) :
        IsOutcomeOf(log[i], "cancelled") =>
            /\ pc = "done"
            /\ Emitted # <<>>
            /\ Emitted[Len(Emitted)].res.prefix \in FailPrefixes

\* C6 amended: a cancellation while a call is in flight aborts the call and
\* CancelledError leaves the handler uncaught (it is no Exception): the
\* invocation emits nothing and issues no further request.
C6_CancellationPropagates ==
    \A i \in 1..Len(log) :
        IsOutcomeOf(log[i], "cancelled") =>
            /\ pc = "raised"
            /\ Len(log) = i + 1
            /\ log[i + 1] = Raised(CancelledError)
            /\ Emitted = <<>>
            /\ err = <<CancelledError>>

\* C6's case: the detail call cancelled in flight
C6_Witness ==
    /\ cmd = "detail"
    /\ Len(log) = 3
    /\ IsRequest(log[1], "GET_subject")
    /\ IsOutcomeOf(log[2], "cancelled")
    /\ pc = "raised"

NotFoundMessage == Plain("DETAIL_FAILED", "SUBJECT_NOT_FOUND", <<>>)
BadStatusMessage == Plain("DETAIL_FAILED", "DETAIL_API_NON_200", <<>>)

\* C7: the detail command answers a 404 with the "not found" message, which
\* no other outcome (another non-200 status, a transport error, a timeout, a
\* malformed payload) produces; every other non-200 status produces one and
\* the same bad-status message.
C7_NotFoundDistinct ==
    (/\ cmd = "detail" /\ Len(log) >= 2 /\ log[2].ev = "outcome"
     /\ log[2].outcome.kind # "cancelled") =>
        LET o == log[2].outcome IN
        /\ pc = "done"
        /\ Len(Emitted) = 1
        /\ (o.kind = "response" /\ o.status = 404)
               <=> Emitted[1].res = NotFoundMessage
        /\ (o.kind = "response" /\ o.status \notin {200, 404})
               <=> Emitted[1].res = BadStatusMessage

\* C7's case: a detail call answered 404
C7_Witness ==
    /\ cmd = "detail" /\ Len(log) = 3
    /\ IsOutcomeOf(log[2], "response")
    /\ log[2].outcome.status = 404
    /\ log[3] = Emit(NotFoundMessage)
    /\ pc = "done"

\* a day bucket with at least one renderable item was selected
Renderable ==
    /\ CalendarFetched
    /\ day # <<>>
    /\ day[1].items.t = "list"
    /\ ~build_render_items_raises(day[1].items.v, TRUE)
    /\ \E i \in 1..Len(day[1].items.v) : day[1].items.v[i].isdict

\* the date, weekday label and items the selected day is rendered with
DayArgs ==
    LET info == get_day_display_info(
                    day[1],
                    IF cmd = "today" THEN today ELSE latest_weekday_date(today, target),
                    IF cmd = "today" THEN isoweekday(today) ELSE target)
    IN  <<info[1], info[2], build_render_items(day[1].items.v, TRUE)>>

RenderEnded(ok) == \E i \in 1..Len(log) : log[i] = RenderOutcome(ok)

\* C8: with a bucket of at least one renderable item selected, a failing
\* image renderer (the template not loaded, or html_render raising) makes the
\* invocation emit exactly one result, the plain-text rendering of the same
\* date, weekday label and items, and no failure message; a succeeding one
\* makes it emit only the image.
C8_RenderFallback ==
    Renderable =>
        /\ (~template \/ RenderEnded(FALSE)) =>
            /\ pc = "done"
            /\ Emitted = <<Emit(Plain("DAY_TEXT", "", DayArgs))>>
        /\ RenderEnded(TRUE) =>
            /\ pc = "done"
            /\ Emitted = <<Emit(Image(DayArgs))>>
        /\ (template /\ pc = "render") => render_args = <<DayArgs>> /\ Emitted = <<>>

\* C8's case: html_render raised after today's bucket was selected
C8_Witness ==
    /\ cmd = "today"
    /\ Renderable
    /\ template
    /\ RenderEnded(FALSE)
    /\ pc = "done"
    /\ Len(DayArgs[3]) = 2
    /\ Emitted = <<Emit(Plain("DAY_TEXT", "", DayArgs))>>

\* C9: the today, weekday and detail commands issue at most one request and
\* the search command at most two, the GET only after the POST returned no
\* usable result; no request follows a result.
C9_RequestBound ==
    /\ cmd \in {"today", "weekday", "detail"} => Len(Requests) <= 1
    /\ cmd = "search" => Len(Requests) <= 2
    /\ \A i \in 1..Len(log) :
        IsRequest(log[i], "GET_search") =>
            /\ i = 3
            /\ IsRequest(log[1], "POST_search")
            /\ log[2].ev = "outcome"
            /\ ~PostUsable(log[2].outcome)
    /\ \A i \in 1..Len(log) : \A j \in (i + 1)..Len(log) :
        IsEmit(log[i]) => log[j].ev # "request"

\* C9's case: a search that needed both requests and emitted its listing
C9_Witness ==
    /\ cmd = "search"
    /\ Len(Requests) = 2
    /\ pc = "done"
    /\ Len(Emitted) = 1
    /\ Emitted[1].res.prefix = "SEARCH_TEXT"

\* the first date after base that falls on weekday w
NextWeekdayDate(base, w) == base + ((w - isoweekday(base) - 1) % 7) + 1

\* the weekday command for Monday fetched a calendar with no bucket that
\* resolves to Monday but with a renderable bucket dated next Monday
NoMondayButNextMonday ==
    /\ cmd = "weekday" /\ target = 1 /\ CalendarFetched
    /\ CandidatesAt(1) = {}
    /\ \E i \in 1..Len(calendar) :
        /\ calendar[i].date = DateIso(NextWeekdayDate(today, 1))
        /\ calendar[i].items.t = "list"
        /\ ~build_render_items_raises(calendar[i].items.v, TRUE)
        /\ \E k \in 1..Len(calendar[i].items.v) : calendar[i].items.v[k].isdict

\* C10 as stated: in that case the command falls back to the bucket dated
\* next Monday and renders its items with the Monday label.
C10_Original ==
    NoMondayButNextMonday =>
        /\ day # <<>>
        /\ day[1].date = DateIso(NextWeekdayDate(today, 1))
        /\ \A i \in 1..Len(log) :
            IsEmit(log[i]) =>
                /\ log[i].res.prefix \in {"DAY_TEXT", "DAY_IMAGE"}
                /\ log[i].res.data[2] = WEEKDAY_CN_MAP[1]

\* C10 amended: in that case no bucket is selected and the command emits
\* the "no data" message, rendering nothing.
C10_NoDateFallback ==
    NoMondayButNextMonday =>
        /\ day = <<>>
        /\ render_args = <<>>
        /\ pc = "done"
        /\ Emitted = <<Emit(Plain("NO_DATA", "", <<>>))>>

\* C10's case: such a calendar was fetched and the command has ended
C10_Witness ==
    /\ NoMondayButNextMonday
    /\ Len(calendar) = 2
    /\ pc = "done"
    /\ Emitted = <<Emit(Plain("NO_DATA", "", <<>>))>>

(***************************************************************************)
(* Properties of the direct calls (SpecCalls).                             *)
(***************************************************************************)
\* _build_render_items has returned (not raised)
BuildReturned ==
    /\ call.fn = "build_render_items"
    /\ call.out # <<>>
    /\ ~call.out[1].raised

\* the object entries of the call's items, in input order
ObjectEntries == SelectSeq(call.args.items, LAMBDA e : e.isdict)

\* C11: every render item _build_render_items produces has a rating_total
\* that is an integer >= 0, whatever the source value of rating.total.
C11_Original ==
    BuildReturned =>
        \A i \in 1..Len(call.out[1].value) : call.out[1].value[i].rating_total \in Nat

\* the position entry k of objs takes in a stable descending order by total
StablePosition(objs, k) ==
    1 + Cardinality({j \in 1..Len(objs) :
                        get_rating_total(objs[j]) > get_rating_total(objs[k])})
      + Cardinality({j \in 1..(k - 1) :
                        get_rating_total(objs[j]) = get_rating_total(objs[k])})

\* C12: with sorting enabled the output holds the object entries of the
\* input by coerced rating total descending, entries of equal totals in
\* their input order, and the item at position i has rank i; with sorting
\* disabled it holds them in input order with ranks 1..N; a non-object entry
\* never appears.
C12_SortedRanked ==
    BuildReturned =>
        LET objs == ObjectEntries
            out == call.out[1].value
            Pos(k) == IF call.args.sort THEN StablePosition(objs, k) ELSE k
        IN  /\ Len(out) = Len(objs)
            /\ \A i \in 1..Len(out) : out[i].rank = i
            /\ \A k \in 1..Len(objs) :
                /\ Pos(k) \in 1..Len(out)
                /\ out[Pos(k)].subject_id =
                       (LET id == to_int(objs[k].id) IN IF id # <<>> THEN id[1] ELSE 0)
                /\ out[Pos(k)].rating_total = get_rating_total(objs[k])
            /\ \A i \in 1..(Len(out) - 1) :
                call.args.sort => out[i].rating_total >= out[i + 1].rating_total

\* C12's case: the totals 5, 50, "5", 0 come out as 50, 5 (first), 5
\* (second), 0 with ranks 1..4
C12_Witness ==
    /\ BuildReturned
    /\ call.args.sort
    /\ call.args.items = <<Item(JInt(1), JInt(5)), Item(JInt(2), JInt(50)),
                           Item(JInt(3), JStr(<<"5">>)), Item(JInt(4), JInt(0))>>
    /\ [i \in 1..4 |-> call.out[1].value[i].subject_id] = <<2, 1, 3, 4>>
    /\ [i \in 1..4 |-> call.out[1].value[i].rank] = <<1, 2, 3, 4>>

\* text without its leading and trailing whitespace
Trimmed(text) ==
    LET solid == {i \in 1..Len(text) : ~IsSpace(text[i])} IN
    IF solid = {} THEN <<>>
    ELSE SubSeq(text,
                CHOOSE i \in solid : \A j \in solid : i <= j,
                CHOOSE i \in solid : \A j \in solid : i >= j)

\* the summary text of the call's item
SummaryText ==
    LET summary == call.args.items[1].summary IN
    IF summary.t = "str" THEN summary.s ELSE <<>>

\* C13: for every summary text and limit L >= 1, the text trimmed and with
\* its newlines replaced by spaces is returned unchanged when it has at most
\* L characters, and otherwise its first L characters without their
\* trailing whitespace followed by "..."; a text of 150 characters without
\* whitespace cut at 100 gives exactly 100 characters followed by "...".
C13_SummaryTruncation ==
    (call.fn = "safe_summary" /\ call.out # <<>>) =>
        LET L == call.args.limit
            text == Trimmed(SummaryText)
            flat == [i \in 1..Len(text) |-> IF text[i] = "\n" THEN " " ELSE text[i]]
            out == call.out[1].value
        IN  /\ ~call.out[1].raised
            /\ Len(flat) <= L => out = flat
            /\ Len(flat) > L => out = Trimmed(SubSeq(flat, 1, L)) \o Ellipsis
            /\ (SummaryText = LongText /\ L = DEFAULT_SUMMARY_LIMIT /\ Len(LongText) > L) =>
                   out = [i \in 1..DEFAULT_SUMMARY_LIMIT |-> "a"] \o Ellipsis

\* C13's case: a text whose first L characters end in whitespace (a replaced
\* newline) is cut and loses it before the ellipsis
C13_Witness ==
    /\ call.fn = "safe_summary" /\ call.out # <<>>
    /\ SummaryText = <<" ", "a", "\n", "a">>
    /\ call.args.limit = 2
    /\ call.out[1].value = <<"a", ".", ".", ".">>

\* C14: the url of every render item is never empty: it is the explicit url
\* field, trimmed and with a leading "//" upgraded to "https://", when that
\* is non-empty after trimming; otherwise the subject-page URL built from the
\* id when the id coerces to an integer; otherwise the "no link" marker.
C14_UrlNeverEmpty ==
    BuildReturned =>
        LET objs == ObjectEntries
            out == call.out[1].value
        IN  /\ \A i \in 1..Len(out) : out[i].url # <<>>
            /\ Len(objs) = 1 =>
                LET explicit == Trimmed(StrOrEmpty(objs[1].url))
                    id == to_int(objs[1].id)
                IN  /\ Len(out) = 1
                    /\ explicit # <<>> =>
                        out[1].url =
                            IF Len(explicit) >= 2 /\ explicit[1] = "/" /\ explicit[2] = "/"
                            THEN <<"h", "t", "t", "p", "s", ":">> \o explicit
                            ELSE explicit
                    /\ (explicit = <<>> /\ id # <<>>) =>
                        out[1].url = SubjectUrlPrefix \o IntToStr(id[1])
                    /\ (explicit = <<>> /\ id = <<>>) => out[1].url = NoLink

\* C14's case: a whitespace-only url and an id that is no integer give the
\* "no link" marker
C14_Witness ==
    /\ BuildReturned
    /\ call.args.items = <<ItemUrl(JStr(<<"x">>), JStr(<<" ", " ">>))>>
    /\ call.out[1].value[1].url = NoLink

\* the weekday an id value names: <<w>> when it parses to an integer in
\* 1..7, <<>> when it is absent, unparseable or outside 1..7
IdWeekday(id) ==
    LET parsed == IF id.t = "float_inf" THEN <<>> ELSE to_int(id) IN
    IF parsed # <<>> /\ parsed[1] \in 1..7 THEN parsed ELSE <<>>

\* the weekdays a localized name / an English name matches
CnWeekdays(cn) == {w \in 1..7 : Trimmed(cn) = WEEKDAY_CN_MAP[w]}
EnWeekdays(en) ==
    {w \in 1..7 :
        LET name == WEEKDAY_EN_MAP[w]
            given == Lower(Trimmed(en))
        IN  given = name \/ given = SubSeq(name, 1, 3)}

\* C15: the weekday resolution of a bucket always yields a value in 1..7 or
\* none, by a fixed precedence: a numeric id in 1..7 wins; only when the id
\* is absent, unparseable or outside 1..7 the localized name is matched;
\* only when that fails the English name (full or 3 letters, any case); a
\* weekday field that is no object, or all three failing, gives none.
C15_Original ==
    (call.fn = "extract_weekday_id" /\ call.out # <<>>) =>
        LET weekday == call.args.day.weekday
            out == call.out[1]
        IN  /\ ~out.raised
            /\ out.value \in {<<>>} \cup {<<w>> : w \in 1..7}
            /\ ~weekday.isdict => out.value = <<>>
            /\ weekday.isdict =>
                IF IdWeekday(weekday.id) # <<>> THEN out.value = IdWeekday(weekday.id)
                ELSE IF CnWeekdays(weekday.cn) # {}
                     THEN out.value # <<>> /\ out.value[1] \in CnWeekdays(weekday.cn)
                ELSE IF EnWeekdays(weekday.en) # {}
                     THEN out.value # <<>> /\ out.value[1] \in EnWeekdays(weekday.en)
                ELSE out.value = <<>>

(***************************************************************************)
(* Properties of the command handlers, continued (Spec).                   *)
(***************************************************************************)
\* the argument text the handler works on: the pattern's group when the
\* message matches the command's pattern, the host-parsed argument otherwise
GivenArgument ==
    IF argv.message.matched THEN argv.message.group ELSE argv.fallback

\* the id argument is missing, non-numeric, zero or negative
BadIdArgument ==
    LET text == Trimmed(GivenArgument) IN
    \/ text = <<>>
    \/ ~IsIntLiteral(text)
    \/ IntLiteralValue(text) <= 0

\* C16: argument validation precedes any network I/O: a search invocation
\* whose keyword is empty after trimming, and a detail invocation whose id
\* argument is missing, non-numeric, zero or negative, emits exactly one
\* usage message and issues no HTTP request; every detail request issued
\* carries a strictly positive integer id.
C16_ValidationFirst ==
    /\ (cmd = "search" /\ Trimmed(GivenArgument) = <<>>) =>
        /\ pc = "done"
        /\ log = <<Emit(Plain("USAGE_SEARCH", "", <<>>))>>
    /\ (cmd = "detail" /\ BadIdArgument) =>
        /\ pc = "done"
        /\ log = <<Emit(Plain("USAGE_DETAIL", "", <<>>))>>
    /\ \A i \in 1..Len(log) :
        IsRequest(log[i], "GET_subject") =>
            /\ log[i].arg \in Nat \ {0}
            /\ ~BadIdArgument
            /\ log[i].arg = IntLiteralValue(Trimmed(GivenArgument))
    /\ \A i \in 1..Len(log) :
        IsRequest(log[i], "POST_search") => Trimmed(GivenArgument) # <<>>

\* C16's case: a detail invocation with the argument "-5" ended with the
\* usage message and no request
C16_Witness ==
    /\ cmd = "detail"
    /\ ~argv.message.matched
    /\ argv.fallback = <<"-", "5">>
    /\ pc = "done"
    /\ Requests = <<>>
    /\ log = <<Emit(Plain("USAGE_DETAIL", "", <<>>))>>

=============================================================================
